---- MODULE Spec2Model ----
(***************************************************************************)
(* Model of the Hex Canary worker process                                  *)
(* (src/runtime/canary/hex_canary_worker.py): module import guard,         *)
(* CanaryRuntime, the framed channel (read_message / write_message) and    *)
(* the dispatch loop of main.                                              *)
(*                                                                         *)
(* The host's byte stream is modelled as a sequence of frames.  Each frame *)
(* records what the reader finds (a short header, a short payload, a       *)
(* payload that is not JSON, JSON that is not an object, or an object) and *)
(* for a transcribe request what the file system and the engine will do    *)
(* for it (env), so that "this request would succeed" is a property of the *)
(* request and not of the history.                                         *)
(***************************************************************************)
EXTENDS Integers, Sequences, FiniteSets, TLC

\* ------------------------------------------------------------------ bounds
MaxFrames == 3      \* longest input stream the host sends
MaxLatency == 1     \* longest an inference call keeps the worker waiting

\* --------------------------------------------------------------- constants
Absent == "<absent>"            \* dict.get / missing key: Python's None
NoStatus == -1                  \* the process has not exited yet
NoModel == "None"               \* self._model is None
Handle == "SALMModel"           \* the restored engine

Devices == {"mps", "cpu"}
AudioPath == "/tmp/a.pcm"

\* what the file system and the engine do for one transcribe request
Envs == {"list", "str", "nofile", "oddlen", "raise", "emptylist"}

Frame(kind, cmd, path, env) ==
    [kind |-> kind, command |-> cmd, path |-> path, env |-> env]

TruncatedFrames ==
    { Frame(k, Absent, Absent, "-") : k \in {"shorthdr", "shortpayload"} }

CompleteFrames ==
    { Frame(k, Absent, Absent, "-") : k \in {"badjson", "nonobject"} }
    \cup { Frame("object", c, Absent, "-") :
             c \in {"shutdown", "frobnicate", "load", "transcribe", Absent} }
    \cup { Frame("object", "transcribe", AudioPath, e) : e \in Envs }

Frames == TruncatedFrames \cup CompleteFrames

\* a stream that closes in the middle of a frame has nothing after it
Streams ==
    UNION { { s \in [1..n -> Frames] :
                \A i \in 1..n : s[i] \in TruncatedFrames => i = n }
            : n \in 0..MaxFrames }

VARIABLES
    pc,          \* position of the process
    device,      \* args.device
    model,       \* runtime._model
    stdin,       \* frames the worker has not read yet
    message,     \* the local `message` of main
    out,         \* what has been written to stdout
    exc,         \* message of the exception last raised
    status,      \* exit status of the process
    loadResult,  \* history: how runtime.load() ended
    consumed,    \* history: complete frames taken from stdin
    fileReads,   \* history: requests for which the audio file was read
    inferCalls,  \* history: requests for which generate() was called
    waited,      \* time the running inference call has taken so far
    restores,    \* history: number of calls of SALMModel.restore_from
    loadCalls,   \* history: number of calls of runtime.load()
    wire         \* the byte streams of the framed channel on its own

vars == <<pc, device, model, stdin, message, out, exc, status, loadResult,
          consumed, fileReads, inferCalls, waited, restores, loadCalls, wire>>

NoMessage == Frame("none", Absent, Absent, "-")

\* the channel is not exercised on its own
NoWire == [pc |-> "idle", msgs |-> <<>>, sent |-> 0, bytes |-> <<>>, got |-> <<>>]

\* ----------------------------------------------------------- the channel
Out(type, body, framed, req) ==
    [type |-> type, body |-> body, framed |-> framed, req |-> req]

write_message_reordered(o, m) ==
    IF Len(o) >= 2
    THEN SubSeq(o, 1, Len(o) - 1) \o <<m>> \o <<o[Len(o)]>>
    ELSE Append(o, m)

\* write_message: header, payload and flush: the frame is on the output,
\* after everything written before it, when the call returns
write_message(o, m) == Append(o, m)

\* str() of a value taken from the request
PyStr(v) == IF v = Absent THEN "None" ELSE v

Init ==
    /\ pc = "import"
    /\ device \in Devices
    /\ model = NoModel
    /\ stdin \in Streams
    /\ message = NoMessage
    /\ out = <<>>
    /\ exc = ""
    /\ status = NoStatus
    /\ loadResult = "pending"
    /\ consumed = <<>>
    /\ fileReads = {}
    /\ inferCalls = {}
    /\ waited = 0
    /\ restores = 0
    /\ loadCalls = 0
    /\ wire = NoWire

\* an exception nobody catches: traceback, exit status 1
Crash(msg) ==
    /\ pc' = "crashed"
    /\ exc' = msg
    /\ status' = 1

\* ------------------------------------------------------ import guard
Import ==
    /\ pc = "import"
    /\ \/ /\ pc' = "construct"
          /\ UNCHANGED <<out, exc, status>>
       \/ /\ out' = Append(out, Out("fatal", "Failed to import PyTorch/NeMo", FALSE, 0))
          /\ Crash("ImportError")
    /\ UNCHANGED <<device, model, stdin, message, loadResult, consumed,
                   fileReads, inferCalls, waited>>
    /\ UNCHANGED <<restores, loadCalls, wire>>

\* ------------------------------------------------- CanaryRuntime.__init__
Construct ==
    /\ pc = "construct"
    /\ IF device # "mps"
       THEN Crash("This build only supports the MPS backend")
       ELSE \/ Crash("MPS backend not available")
            \/ /\ pc' = "loading"
               /\ UNCHANGED <<exc, status>>
    /\ model' = NoModel
    /\ UNCHANGED <<device, stdin, message, out, loadResult, consumed,
                   fileReads, inferCalls, waited>>
    /\ UNCHANGED <<restores, loadCalls, wire>>

\* ---------------------------------------------------- CanaryRuntime.load
RestoreErrors == {"checkpoint not found", "checkpoint corrupt"}
FreezeErrors == {"freeze failed"}

LoadCall_noguard(okpc, failpc) ==
    /\ loadCalls' = loadCalls + 1
    /\ restores' = restores + 1
    /\ \/ \E e \in RestoreErrors :
              /\ exc' = e
              /\ loadResult' = "restore_failed"
              /\ pc' = failpc
              /\ UNCHANGED model
       \/ \E e \in FreezeErrors :
              /\ model' = Handle
              /\ exc' = e
              /\ loadResult' = "freeze_failed"
              /\ pc' = failpc
       \/ /\ model' = Handle
          /\ loadResult' = "ok"
          /\ pc' = okpc
          /\ UNCHANGED exc

\* one call of runtime.load(); the caller goes on at okpc when it returns
\* and at failpc when it raises
LoadCall(okpc, failpc) ==
    /\ loadCalls' = loadCalls + 1
    /\ IF model # NoModel
       THEN /\ pc' = okpc
            /\ loadResult' = "ok"
            /\ UNCHANGED <<model, exc, restores>>
       ELSE /\ restores' = restores + 1
            /\ \/ \E e \in RestoreErrors :       \* restore_from raises
                      /\ exc' = e
                      /\ loadResult' = "restore_failed"
                      /\ pc' = failpc
                      /\ UNCHANGED model
               \/ \E e \in FreezeErrors :        \* freeze raises
                      /\ model' = Handle
                      /\ exc' = e
                      /\ loadResult' = "freeze_failed"
                      /\ pc' = failpc
               \/ /\ model' = Handle
                  /\ loadResult' = "ok"
                  /\ pc' = okpc
                  /\ UNCHANGED exc

\* main: runtime.load() inside the try
Load ==
    /\ pc = "loading"
    /\ LoadCall("loaded", "load_failed")
    /\ UNCHANGED <<device, stdin, message, out, status, consumed,
                   fileReads, inferCalls, waited, wire>>

WriteReady_silent ==
    /\ pc = "loaded"
    /\ pc' = "read"
    /\ UNCHANGED <<out, device, model, stdin, message, exc, status, loadResult,
                   consumed, fileReads, inferCalls, waited>>
    /\ UNCHANGED <<restores, loadCalls, wire>>

\* main: write_message({"type": "ready"}) after load() returned
WriteReady ==
    /\ pc = "loaded"
    /\ out' = write_message(out, Out("ready", "", TRUE, 0))
    /\ pc' = "read"
    /\ UNCHANGED <<device, model, stdin, message, exc, status, loadResult,
                   consumed, fileReads, inferCalls, waited>>
    /\ UNCHANGED <<restores, loadCalls, wire>>

WriteFatal_continue ==
    /\ pc = "load_failed"
    /\ out' = write_message(out, Out("fatal", exc, TRUE, 0))
    /\ pc' = "read"
    /\ UNCHANGED <<status, device, model, stdin, message, exc, loadResult,
                   consumed, fileReads, inferCalls, waited>>
    /\ UNCHANGED <<restores, loadCalls, wire>>

\* main: except Exception: write_message({"type": "fatal", ...}); return 1
WriteFatal ==
    /\ pc = "load_failed"
    /\ out' = write_message(out, Out("fatal", exc, TRUE, 0))
    /\ status' = 1
    /\ pc' = "returned"
    /\ UNCHANGED <<device, model, stdin, message, exc, loadResult,
                   consumed, fileReads, inferCalls, waited>>
    /\ UNCHANGED <<restores, loadCalls, wire>>

\* ------------------------------------------------------------ read_message
\* len(encoded).to_bytes(4, "big") and int.from_bytes(header, "big")
to_bytes4(n) ==
    << (n \div 16777216) % 256, (n \div 65536) % 256, (n \div 256) % 256, n % 256 >>

from_bytes(h) == h[1] * 16777216 + h[2] * 65536 + h[3] * 256 + h[4]

Min(a, b) == IF a < b THEN a ELSE b

\* byte count of the JSON text of a frame, as json.dumps writes it
PayloadLen(f) ==
    CASE f.kind = "badjson" -> 3                            \* {no
      [] f.kind = "nonobject" -> 2                          \* []
      [] f.kind = "object" /\ f.command = Absent -> 2       \* {}
      [] f.kind = "object" /\ f.command = "shutdown" -> 23
      [] f.kind = "object" /\ f.command = "frobnicate" -> 25
      [] f.kind = "object" /\ f.command = "load" -> 19
      [] f.kind = "object" /\ f.command = "transcribe" /\ f.path = Absent -> 25
      [] f.kind = "object" /\ f.command = "transcribe" /\ f.path # Absent -> 47
      [] OTHER -> 23                  \* the frame the stream closed in

\* what of a frame is in the stream: the header bytes and the number of
\* payload bytes behind them.  A stream that closes in a frame has 3 bytes
\* of its header, or the whole header and all but one byte of the payload
Delivered(f) ==
    CASE f.kind = "shorthdr" ->
             [header |-> SubSeq(to_bytes4(PayloadLen(f)), 1, 3), avail |-> 0]
      [] f.kind = "shortpayload" ->
             [header |-> to_bytes4(PayloadLen(f)), avail |-> PayloadLen(f) - 1]
      [] OTHER ->
             [header |-> to_bytes4(PayloadLen(f)), avail |-> PayloadLen(f)]

EOFError == [outcome |-> "EOFError", value |-> NoMessage, rest |-> <<>>, took |-> <<>>]

read_message_nolencheck(s) ==
    IF s = <<>> \/ Len(Delivered(Head(s)).header) < 4
    THEN EOFError
    ELSE IF Head(s).kind = "badjson"
    THEN [outcome |-> "JSONDecodeError", value |-> NoMessage, rest |-> Tail(s),
          took |-> <<Head(s)>>]
    ELSE [outcome |-> "ok", value |-> Head(s), rest |-> Tail(s),
          took |-> <<Head(s)>>]

\* what one call does with the stream s: EOFError when read(4) returns fewer
\* than 4 bytes or read(length) fewer than length bytes, an exception of
\* json.loads on a payload that is not JSON, else the decoded value
read_message(s) ==
    IF s = <<>>
    THEN EOFError
    ELSE LET d == Delivered(Head(s)) IN
         IF Len(d.header) < 4
         THEN EOFError
         ELSE LET length == from_bytes(d.header)
                  payload == Min(length, d.avail)
              IN IF payload # length
                 THEN EOFError
                 ELSE IF Head(s).kind = "badjson"
                 THEN [outcome |-> "JSONDecodeError", value |-> NoMessage,
                       rest |-> Tail(s), took |-> <<Head(s)>>]
                 ELSE [outcome |-> "ok", value |-> Head(s), rest |-> Tail(s),
                       took |-> <<Head(s)>>]

\* main: message = read_message(), except EOFError: break ... return 0
ReadMessage ==
    /\ pc = "read"
    /\ LET r == read_message(stdin) IN
       /\ stdin' = r.rest
       /\ consumed' = consumed \o r.took
       /\ CASE r.outcome = "EOFError" ->
                 /\ pc' = "returned"
                 /\ status' = 0
                 /\ UNCHANGED <<message, exc>>
            [] r.outcome = "JSONDecodeError" ->
                 /\ Crash("JSONDecodeError")
                 /\ UNCHANGED message
            [] OTHER ->
                 /\ message' = r.value
                 /\ pc' = "dispatch"
                 /\ UNCHANGED <<exc, status>>
    /\ UNCHANGED <<device, model, out, loadResult, fileReads, inferCalls, waited>>
    /\ UNCHANGED <<restores, loadCalls, wire>>

\* the request being handled: the last complete frame taken from the stream
Cur == Len(consumed)

\* main: message.get on a decoded value that is not a dict
DispatchNonObject ==
    /\ pc = "dispatch"
    /\ message.kind # "object"
    /\ Crash("AttributeError")
    /\ UNCHANGED <<device, model, stdin, message, out, loadResult, consumed,
                   fileReads, inferCalls, waited>>
    /\ UNCHANGED <<restores, loadCalls, wire>>

DispatchShutdown_release ==
    /\ pc = "dispatch"
    /\ message.kind = "object"
    /\ message.command = "shutdown"
    /\ out' = write_message(out, Out("shutdown", "", TRUE, Cur))
    /\ model' = NoModel
    /\ pc' = "returned"
    /\ status' = 0
    /\ UNCHANGED <<device, stdin, message, exc, loadResult, consumed,
                   fileReads, inferCalls, waited>>
    /\ UNCHANGED <<restores, loadCalls, wire>>

DispatchShutdown_nobreak ==
    /\ pc = "dispatch"
    /\ message.kind = "object"
    /\ message.command = "shutdown"
    /\ out' = write_message(out, Out("shutdown", "", TRUE, Cur))
    /\ pc' = "read"
    /\ UNCHANGED <<status, device, model, stdin, message, exc, loadResult, consumed,
                   fileReads, inferCalls, waited>>
    /\ UNCHANGED <<restores, loadCalls, wire>>

\* main: command == "shutdown": reply, break, return 0
DispatchShutdown ==
    /\ pc = "dispatch"
    /\ message.kind = "object"
    /\ message.command = "shutdown"
    /\ out' = write_message(out, Out("shutdown", "", TRUE, Cur))
    /\ pc' = "returned"
    /\ status' = 0
    /\ UNCHANGED <<device, model, stdin, message, exc, loadResult, consumed,
                   fileReads, inferCalls, waited>>
    /\ UNCHANGED <<restores, loadCalls, wire>>

UnknownCommandError_notag(command) == "Unknown command "

\* f"Unknown command {command}"
UnknownCommandError(command) == "Unknown command " \o PyStr(command)

\* main: any other command: one error reply, next iteration
DispatchUnknown ==
    /\ pc = "dispatch"
    /\ message.kind = "object"
    /\ message.command \notin {"shutdown", "transcribe"}
    /\ out' = write_message(out, Out("error", UnknownCommandError(message.command), TRUE, Cur))
    /\ pc' = "read"
    /\ UNCHANGED <<device, model, stdin, message, exc, status, loadResult,
                   consumed, fileReads, inferCalls, waited>>
    /\ UNCHANGED <<restores, loadCalls, wire>>

\* ------------------------------------------------ CanaryRuntime.transcribe
Prepare_filefirst(m, msg) ==
    IF msg.path = Absent
    THEN [raised |-> "'path'", opened |-> FALSE]
    ELSE IF msg.env = "nofile"
    THEN [raised |-> "No such file or directory", opened |-> TRUE]
    ELSE IF msg.env = "oddlen"
    THEN [raised |-> "buffer size must be a multiple of element size",
          opened |-> TRUE]
    ELSE IF m = NoModel
    THEN [raised |-> "Model not loaded", opened |-> TRUE]
    ELSE [raised |-> "", opened |-> TRUE]

Prepare_defaultpath(m, msg) ==
    IF m = NoModel
    THEN [raised |-> "Model not loaded", opened |-> FALSE]
    ELSE IF msg.path = Absent \/ msg.env = "nofile"
    THEN [raised |-> "No such file or directory", opened |-> TRUE]
    ELSE IF msg.env = "oddlen"
    THEN [raised |-> "buffer size must be a multiple of element size",
          opened |-> TRUE]
    ELSE [raised |-> "", opened |-> TRUE]

\* Path(message["path"]) and the part of transcribe before generate():
\* the exception raised, if any, and whether the audio file was opened
Prepare(m, msg) ==
    IF msg.path = Absent
    THEN [raised |-> "'path'", opened |-> FALSE]                \* KeyError
    ELSE IF m = NoModel
    THEN [raised |-> "Model not loaded", opened |-> FALSE]
    ELSE IF msg.env = "nofile"
    THEN [raised |-> "No such file or directory", opened |-> TRUE]
    ELSE IF msg.env = "oddlen"
    THEN [raised |-> "buffer size must be a multiple of element size",
          opened |-> TRUE]
    ELSE [raised |-> "", opened |-> TRUE]

\* generate() and the extraction of the text: a list of results, an empty
\* list, any other value, or an exception of the engine
Generate(msg) ==
    CASE msg.env = "raise" -> [raised |-> "inference failed", text |-> ""]
      [] msg.env = "emptylist" -> [raised |-> "list index out of range", text |-> ""]
      [] msg.env = "list" -> [raised |-> "", text |-> "text of first result"]
      [] OTHER -> [raised |-> "", text |-> "str of output"]

\* main: command == "transcribe", up to the call of generate()
TranscribeStart ==
    /\ pc = "dispatch"
    /\ message.kind = "object"
    /\ message.command = "transcribe"
    /\ LET p == Prepare(model, message) IN
       /\ fileReads' = IF p.opened THEN fileReads \cup {Cur} ELSE fileReads
       /\ IF p.raised # ""
          THEN /\ exc' = p.raised
               /\ out' = write_message(out, Out("error", p.raised, TRUE, Cur))
               /\ pc' = "read"
               /\ UNCHANGED <<inferCalls, waited>>
          ELSE /\ inferCalls' = inferCalls \cup {Cur}
               /\ waited' = 0
               /\ pc' = "infer"
               /\ UNCHANGED <<exc, out>>
    /\ UNCHANGED <<device, model, stdin, message, status, loadResult, consumed>>
    /\ UNCHANGED <<restores, loadCalls, wire>>

\* the inference call has not returned yet
InferWait ==
    /\ pc = "infer"
    /\ waited < MaxLatency
    /\ waited' = waited + 1
    /\ UNCHANGED <<pc, device, model, stdin, message, out, exc, status,
                   loadResult, consumed, fileReads, inferCalls>>
    /\ UNCHANGED <<restores, loadCalls, wire>>

TranscribeFinish_poisoned ==
    /\ pc = "infer"
    /\ LET g == Generate(message) IN
       IF g.raised # ""
       THEN /\ exc' = g.raised
            /\ model' = NoModel
            /\ out' = write_message(out, Out("error", g.raised, TRUE, Cur))
       ELSE /\ out' = write_message(out, Out("result", g.text, TRUE, Cur))
            /\ UNCHANGED <<exc, model>>
    /\ pc' = "read"
    /\ UNCHANGED <<device, stdin, message, status, loadResult, consumed,
                   fileReads, inferCalls, waited>>
    /\ UNCHANGED <<restores, loadCalls, wire>>

\* main: generate() returns or raises: result or error reply, next iteration
TranscribeFinish ==
    /\ pc = "infer"
    /\ LET g == Generate(message) IN
       IF g.raised # ""
       THEN /\ exc' = g.raised
            /\ out' = write_message(out, Out("error", g.raised, TRUE, Cur))
       ELSE /\ out' = write_message(out, Out("result", g.text, TRUE, Cur))
            /\ UNCHANGED exc
    /\ pc' = "read"
    /\ UNCHANGED <<device, model, stdin, message, status, loadResult, consumed,
                   fileReads, inferCalls, waited>>
    /\ UNCHANGED <<restores, loadCalls, wire>>

Next ==
    \/ Import
    \/ Construct
    \/ Load
    \/ WriteReady
    \/ WriteFatal
    \/ ReadMessage
    \/ DispatchNonObject
    \/ DispatchShutdown
    \/ DispatchUnknown
    \/ TranscribeStart
    \/ InferWait
    \/ TranscribeFinish

Spec == Init /\ [][Next]_vars

\* every call returns: a step that can be taken is taken
LiveSpec == Init /\ [][Next]_vars /\ WF_vars(Next)

TypeOK ==
    /\ pc \in {"import", "construct", "loading", "loaded", "load_failed", "read",
               "dispatch", "infer", "returned", "crashed"}
    /\ device \in Devices
    /\ model \in {NoModel, Handle}
    /\ status \in {NoStatus, 0, 1}
    /\ loadResult \in {"pending", "ok", "restore_failed", "freeze_failed"}
    /\ waited \in 0..MaxLatency

\* ============================== CanaryRuntime called by another caller
\* main calls load() once and transcribe() only in the loop.  A caller of the
\* class (a test) can call load() again and transcribe() before load().
MaxLoadCalls == 2   \* most calls of load() on one runtime

\* runtime.load() called again between two requests
LoadAgain ==
    /\ pc = "read"
    /\ loadCalls < MaxLoadCalls
    /\ LoadCall("read", "crashed")
    /\ UNCHANGED <<device, stdin, message, out, status, consumed,
                   fileReads, inferCalls, waited, wire>>

\* runtime.transcribe(path) called on the constructed runtime before load();
\* the call is not one of the numbered requests of the loop (request 0)
TranscribeEarly ==
    /\ pc = "loading"
    /\ \E msg \in { f \in CompleteFrames : f.path # Absent } :
          LET p == Prepare(model, msg) IN
          /\ exc' = p.raised
          /\ fileReads' = IF p.opened THEN fileReads \cup {0} ELSE fileReads
          /\ inferCalls' = IF p.raised = "" THEN inferCalls \cup {0} ELSE inferCalls
    /\ UNCHANGED <<pc, device, model, stdin, message, out, status, loadResult,
                   consumed, waited, restores, loadCalls, wire>>

CallerNext == Next \/ LoadAgain \/ TranscribeEarly

CallerSpec == Init /\ [][CallerNext]_vars

\* ================================================= the channel, byte level
\* Strings are sequences of code points, a message (a dict of strings) is a
\* sequence of <<key, value>> pairs, a stream is a sequence of bytes.

K_type == <<116, 121, 112, 101>>            \* "type"
K_text == <<116, 101, 120, 116>>            \* "text"
K_error == <<101, 114, 114, 111, 114>>      \* "error"
K_command == <<99, 111, 109, 109, 97, 110, 100>>     \* "command"
K_path == <<112, 97, 116, 104>>             \* "path"
V_ready == <<114, 101, 97, 100, 121>>     \* "ready"
V_result == <<114, 101, 115, 117, 108, 116>>     \* "result"
V_error == <<101, 114, 114, 111, 114>>
V_shutdown == <<115, 104, 117, 116, 100, 111, 119, 110>>   \* "shutdown"
V_transcribe == <<116, 114, 97, 110, 115, 99, 114, 105, 98, 101>>

MaxText == 1        \* longest text, error message or path of a message
MaxBatch == 2       \* most messages written back to back

\* characters whose JSON text is longer than the character: the two that
\* JSON escapes with a backslash and one outside ASCII: " \ e-acute
TextChars == {34, 92, 233}

Texts == UNION { [1..n -> TextChars] : n \in 0..MaxText }

V_fatal == <<102, 97, 116, 97, 108>>     \* "fatal"
NotLoaded ==                             \* "Model not loaded"
    <<77, 111, 100, 101, 108, 32, 110, 111, 116, 32, 108, 111, 97, 100, 101, 100>>

\* the message shapes of the protocol, in both directions
Messages ==
    { << <<K_type, V_ready>> >>, << <<K_type, V_shutdown>> >>,
      << <<K_command, V_shutdown>> >>,
      << <<K_type, V_error>>, <<K_error, NotLoaded>> >>,
      << <<K_type, V_fatal>>, <<K_error, NotLoaded>> >> }
    \cup { << <<K_type, V_result>>, <<K_text, t>> >> : t \in Texts }
    \cup { << <<K_command, V_transcribe>>, <<K_path, t>> >> : t \in Texts }

Batches == UNION { [1..n -> Messages] : n \in 1..MaxBatch }

\* ---- json.dumps (ensure_ascii, separators ", " and ": ") and .encode
HexDigit(d) == IF d < 10 THEN 48 + d ELSE 87 + d

Hex4(c) ==
    << HexDigit((c \div 4096) % 16), HexDigit((c \div 256) % 16),
       HexDigit((c \div 16) % 16), HexDigit(c % 16) >>

EscapeChar_raw(c) == <<c>>

EscapeChar(c) ==
    CASE c = 34 -> <<92, 34>>
      [] c = 92 -> <<92, 92>>
      [] c = 10 -> <<92, 110>>
      [] c = 13 -> <<92, 114>>
      [] c = 9 -> <<92, 116>>
      [] c = 8 -> <<92, 98>>
      [] c = 12 -> <<92, 102>>
      [] c < 32 \/ c > 126 -> <<92, 117>> \o Hex4(c)
      [] OTHER -> <<c>>

RECURSIVE EscapeAll(_)
EscapeAll(str) ==
    IF str = <<>> THEN <<>> ELSE EscapeChar(Head(str)) \o EscapeAll(Tail(str))

DumpStr(str) == <<34>> \o EscapeAll(str) \o <<34>>

RECURSIVE DumpPairs(_)
DumpPairs(m) ==
    IF m = <<>> THEN <<>>
    ELSE DumpStr(m[1][1]) \o <<58, 32>> \o DumpStr(m[1][2])
         \o (IF Len(m) > 1 THEN <<44, 32>> ELSE <<>>) \o DumpPairs(Tail(m))

dumps(m) == <<123>> \o DumpPairs(m) \o <<125>>

RECURSIVE Utf8(_)
Utf8(str) ==
    IF str = <<>> THEN <<>>
    ELSE (IF Head(str) < 128 THEN <<Head(str)>>
          ELSE <<192 + (Head(str) \div 64), 128 + (Head(str) % 64)>>)
         \o Utf8(Tail(str))

\* write_message on a byte stream: the length of the encoded payload in 4
\* bytes, then the payload
write_bytes(o, m) ==
    LET encoded == Utf8(dumps(m)) IN o \o to_bytes4(Len(encoded)) \o encoded

\* ---- json.loads of a payload: decoder for objects of strings
Fail == [ok |-> FALSE, val |-> <<>>, next |-> 0]

IsHex(b) == b \in 48..57 \/ b \in 97..102 \/ b \in 65..70
HexVal(b) == IF b \in 48..57 THEN b - 48 ELSE IF b \in 97..102 THEN b - 87 ELSE b - 55

\* the character of a two-character escape
Unescape(b) ==
    CASE b = 110 -> 10 [] b = 114 -> 13 [] b = 116 -> 9 [] b = 98 -> 8
      [] b = 102 -> 12 [] OTHER -> b

\* the characters of a string from position i, behind the opening quote
RECURSIVE ScanString(_, _, _)
ScanString(b, i, acc) ==
    IF i > Len(b) THEN Fail
    ELSE IF b[i] = 34 THEN [ok |-> TRUE, val |-> acc, next |-> i + 1]
    ELSE IF b[i] = 92 THEN
        IF i + 1 > Len(b) THEN Fail
        ELSE IF b[i + 1] \in {34, 92, 47, 110, 114, 116, 98, 102}
        THEN ScanString(b, i + 2, Append(acc, Unescape(b[i + 1])))
        ELSE IF b[i + 1] = 117 /\ i + 5 <= Len(b)
                /\ \A k \in 2..5 : IsHex(b[i + k])
        THEN ScanString(b, i + 6,
                 Append(acc, HexVal(b[i + 2]) * 4096 + HexVal(b[i + 3]) * 256
                             + HexVal(b[i + 4]) * 16 + HexVal(b[i + 5])))
        ELSE Fail
    ELSE IF b[i] < 32 THEN Fail
    ELSE IF b[i] < 128 THEN ScanString(b, i + 1, Append(acc, b[i]))
    ELSE IF b[i] \in 192..223 /\ i + 1 <= Len(b) /\ b[i + 1] \in 128..191
    THEN ScanString(b, i + 2, Append(acc, (b[i] - 192) * 64 + (b[i + 1] - 128)))
    ELSE Fail

RECURSIVE SkipWs(_, _)
SkipWs(b, i) ==
    IF i <= Len(b) /\ b[i] \in {32, 9, 10, 13} THEN SkipWs(b, i + 1) ELSE i

\* dict[key] = value: a repeated key keeps its place and takes the new value
DictSet(d, key, value) ==
    IF \E n \in DOMAIN d : d[n][1] = key
    THEN [n \in DOMAIN d |-> IF d[n][1] = key THEN <<key, value>> ELSE d[n]]
    ELSE Append(d, <<key, value>>)

\* the pairs of an object from position i, where a key is expected
RECURSIVE ScanPairs(_, _, _)
ScanPairs(b, i, acc) ==
    IF i > Len(b) \/ b[i] # 34 THEN Fail
    ELSE LET key == ScanString(b, i + 1, <<>>) IN
         IF ~key.ok THEN Fail
         ELSE LET c == SkipWs(b, key.next) IN
              IF c > Len(b) \/ b[c] # 58 THEN Fail
              ELSE LET v == SkipWs(b, c + 1) IN
                   IF v > Len(b) \/ b[v] # 34 THEN Fail
                   ELSE LET value == ScanString(b, v + 1, <<>>) IN
                        IF ~value.ok THEN Fail
                        ELSE LET e == SkipWs(b, value.next)
                                 d == DictSet(acc, key.val, value.val)
                             IN IF e > Len(b) THEN Fail
                                ELSE IF b[e] = 125
                                THEN [ok |-> TRUE, val |-> d, next |-> e + 1]
                                ELSE IF b[e] = 44
                                THEN ScanPairs(b, SkipWs(b, e + 1), d)
                                ELSE Fail

\* json.loads: the dict, or not ok (JSONDecodeError, also for trailing data)
loads(b) ==
    LET i == SkipWs(b, 1) IN
    IF i > Len(b) \/ b[i] # 123 THEN Fail
    ELSE LET j == SkipWs(b, i + 1)
             r == IF j <= Len(b) /\ b[j] = 125
                  THEN [ok |-> TRUE, val |-> <<>>, next |-> j + 1]
                  ELSE ScanPairs(b, j, <<>>)
         IN IF r.ok /\ SkipWs(b, r.next) = Len(b) + 1 THEN r ELSE Fail

\* read_message on a byte stream
read_bytes(s) ==
    LET header == SubSeq(s, 1, Min(4, Len(s))) IN
    IF Len(header) < 4
    THEN [outcome |-> "EOFError", value |-> <<>>, rest |-> <<>>]
    ELSE LET length == from_bytes(header)
             payload == SubSeq(s, 5, Min(4 + length, Len(s)))
         IN IF Len(payload) # length
            THEN [outcome |-> "EOFError", value |-> <<>>, rest |-> <<>>]
            ELSE LET r == loads(payload) IN
                 IF r.ok
                 THEN [outcome |-> "ok", value |-> r.val,
                       rest |-> SubSeq(s, 5 + length, Len(s))]
                 ELSE [outcome |-> "JSONDecodeError", value |-> <<>>,
                       rest |-> SubSeq(s, 5 + length, Len(s))]

\* ---- the channel on its own: messages written back to back into a
\* stream, the stream closed and then read back message by message
WireInit ==
    /\ pc = "import"
    /\ device = "mps"
    /\ model = NoModel
    /\ stdin = <<>>
    /\ message = NoMessage
    /\ out = <<>>
    /\ exc = ""
    /\ status = NoStatus
    /\ loadResult = "pending"
    /\ consumed = <<>>
    /\ fileReads = {}
    /\ inferCalls = {}
    /\ waited = 0
    /\ restores = 0
    /\ loadCalls = 0
    /\ \E b \in Batches :
          wire = [pc |-> "write", msgs |-> b, sent |-> 0, bytes |-> <<>>, got |-> <<>>]

\* one write_message of the next message of the batch
WireWrite ==
    /\ wire.pc = "write"
    /\ LET n == wire.sent + 1 IN
       wire' = [wire EXCEPT !.bytes = write_bytes(wire.bytes, wire.msgs[n]),
                            !.sent = n,
                            !.pc = IF n = Len(wire.msgs) THEN "read" ELSE "write"]
    /\ UNCHANGED <<pc, device, model, stdin, message, out, exc, status,
                   loadResult, consumed, fileReads, inferCalls, waited,
                   restores, loadCalls>>

\* one read_message from what is left of the stream
WireRead ==
    /\ wire.pc = "read"
    /\ LET r == read_bytes(wire.bytes) IN
       wire' = CASE r.outcome = "EOFError" -> [wire EXCEPT !.pc = "closed"]
                 [] r.outcome = "JSONDecodeError" ->
                        [wire EXCEPT !.pc = "error", !.bytes = r.rest]
                 [] OTHER ->
                        [wire EXCEPT !.got = Append(wire.got, r.value),
                                     !.bytes = r.rest]
    /\ UNCHANGED <<pc, device, model, stdin, message, out, exc, status,
                   loadResult, consumed, fileReads, inferCalls, waited,
                   restores, loadCalls>>

WireNext == WireWrite \/ WireRead

WireSpec == WireInit /\ [][WireNext]_vars

\* ============================================================ properties
Terminated == pc \in {"returned", "crashed"}

\* the output frames written while request k was being handled
RepliesTo(k) == { i \in DOMAIN out : out[i].req = k }

\* request k has been handled: the loop has gone past it or the process ended
Handled(k) == k < Cur \/ pc \in {"read", "returned", "crashed"}

IsObject(k) == consumed[k].kind = "object"
IsShutdown(k) == IsObject(k) /\ consumed[k].command = "shutdown"
IsTranscribe(k) ==
    IsObject(k) /\ consumed[k].command = "transcribe" /\ consumed[k].path # Absent
IsUnknownTag(k) ==
    IsObject(k) /\ consumed[k].command \notin {"shutdown", "transcribe", Absent}

FailingEnvs == {"nofile", "oddlen", "raise", "emptylist"}

\* C1: every request that read_message returned gets exactly one reply, of
\* type result or error unless it is a shutdown, before the next read and
\* by the time the process has ended; never zero and never two.
C1_OneReplyPerRequest ==
    \A k \in 1..Cur :
        consumed[k].kind # "badjson" =>
            /\ Cardinality(RepliesTo(k)) <= 1
            /\ Handled(k) =>
                  /\ Cardinality(RepliesTo(k)) = 1
                  /\ ~IsShutdown(k) =>
                        \A i \in RepliesTo(k) : out[i].type \in {"result", "error"}

\* C2: a complete frame whose payload is not valid JSON is answered with one
\* error frame and the worker does not terminate on it.
C2_MalformedJsonAnswered ==
    \A k \in 1..Cur :
        consumed[k].kind = "badjson" =>
            /\ pc # "crashed"
            /\ Cardinality(RepliesTo(k)) = 1
            /\ \A i \in RepliesTo(k) : out[i].type = "error"

\* C3: started (imports done) with a device other than "mps", the worker
\* ends with one framed fatal message on the output and reads no input.
C3_UnsupportedDeviceFatal ==
    (device # "mps" /\ Terminated /\ exc # "ImportError") =>
        /\ Len(out) = 1
        /\ out[1].type = "fatal"
        /\ out[1].framed
        /\ consumed = <<>>

C5_LoadFailureFatal ==
    loadResult \in {"restore_failed", "freeze_failed"} =>
        /\ pc \in {"load_failed", "returned"}
        /\ consumed = <<>>
        /\ fileReads = {} /\ inferCalls = {}
        /\ \A i \in DOMAIN out : out[i].type = "fatal"
        /\ exc \in RestoreErrors \cup FreezeErrors
        /\ pc = "load_failed" => out = <<>> /\ status = NoStatus
        /\ pc = "returned" => out = <<Out("fatal", exc, TRUE, 0)>> /\ status = 1

C5_Witness ==
    /\ loadResult = "freeze_failed"
    /\ pc = "returned"
    /\ Len(out) = 1
    /\ stdin # <<>>

\* C6: a transcribe request that fails in the file read, the sample decoding
\* or the inference gets exactly one error frame, the engine handle stays
\* what load made it and the worker stays in the loop; a transcribe request
\* that succeeds on a fresh worker gets a result frame whatever came before.
C6_ErrorIsolation ==
    loadResult = "ok" =>
        \A k \in 1..Cur :
            (IsTranscribe(k) /\ Handled(k)) =>
                /\ Cardinality(RepliesTo(k)) = 1
                /\ \A i \in RepliesTo(k) :
                      out[i].type = IF consumed[k].env \in FailingEnvs
                                    THEN "error" ELSE "result"
                /\ model = Handle
                /\ k = Cur => pc \in {"read", "returned"} /\ status \in {NoStatus, 0}

C6_Witness ==
    /\ Cur >= 2
    /\ IsTranscribe(1) /\ consumed[1].env = "raise"
    /\ IsTranscribe(2) /\ consumed[2].env = "list"
    /\ Handled(2)
    /\ \E i \in RepliesTo(2) : out[i].type = "result"

\* C7: after the ready frame the i-th output frame is the reply to the i-th
\* request read, however long the inference calls took.
C7_FIFO ==
    (out # <<>> /\ out[1].type = "ready") =>
        \A i \in 2..Len(out) : out[i].req = i - 1

C7_Witness ==
    /\ Len(out) >= 3
    /\ out[1].type = "ready"
    /\ inferCalls # {}
    /\ waited > 0

\* C8: a shutdown request is the last frame the worker reads: it writes one
\* shutdown frame as its last output and main returns 0.
C8_ShutdownStops ==
    \A k \in 1..Cur :
        IsShutdown(k) =>
            /\ k = Cur
            /\ pc \in {"dispatch", "returned"}
            /\ pc = "dispatch" => \A i \in DOMAIN out : out[i].type # "shutdown"
            /\ pc = "returned" =>
                  /\ status = 0
                  /\ out[Len(out)] = Out("shutdown", "", TRUE, k)
                  /\ Cardinality({ i \in DOMAIN out : out[i].type = "shutdown" }) = 1

C8_Witness ==
    /\ pc = "returned"
    /\ Cur >= 1
    /\ IsShutdown(Cur)
    /\ stdin # <<>>

\* C9: the loop left on end of stream writes nothing more and the exit
\* status is 0; exit status 1 occurs only when the startup load did not
\* succeed.
C9_ExitStatus ==
    /\ status = 1 => loadResult # "ok"
    /\ (pc = "returned" /\ loadResult = "ok") =>
          /\ status = 0
          /\ Len(out) = 1 + Cur

ExpectedUnknownError(tag) ==
    IF tag = "frobnicate" THEN "Unknown command frobnicate" ELSE "Unknown command load"

\* C10: a request with a command tag other than transcribe and shutdown gets
\* exactly one error frame "Unknown command <tag>", no file is read and no
\* inference runs for it, the worker stays in the loop and answers the
\* request after it.
C10_UnknownCommand ==
    \A k \in 1..Cur :
        IsUnknownTag(k) =>
            /\ k \notin fileReads
            /\ k \notin inferCalls
            /\ Handled(k) =>
                  /\ RepliesTo(k) # {}
                  /\ \A i \in RepliesTo(k) :
                        /\ i = k + 1
                        /\ out[i] = Out("error", ExpectedUnknownError(consumed[k].command), TRUE, k)
                  /\ model = Handle
                  /\ k = Cur => pc \in {"read", "returned"} /\ status \in {NoStatus, 0}
                  /\ (k + 1 < Cur /\ IsObject(k + 1)) => RepliesTo(k + 1) # {}

C10_Witness ==
    /\ Cur >= 3
    /\ IsUnknownTag(1)
    /\ IsTranscribe(2) /\ consumed[2].env = "str"
    /\ \E i \in RepliesTo(1) : out[i].body = "Unknown command frobnicate"
    /\ \E i \in RepliesTo(2) : out[i].type = "result"

\* C11: when the stream closes inside a frame (after fewer than 4 header
\* bytes, or after the header and fewer payload bytes than it announces) the
\* read reports end of stream: no message is returned from the partial frame,
\* no reply is written for it and main returns 0.
C11_TruncationSafety ==
    [][ (pc = "read" /\ stdin # <<>> /\ Head(stdin) \in TruncatedFrames) =>
            /\ pc' = "returned"
            /\ status' = 0
            /\ out' = out
            /\ consumed' = consumed
            /\ message' = message
            /\ stdin' = <<>> ]_vars

C11_Witness ==
    /\ pc = "read"
    /\ Cur >= 1
    /\ Len(out) = Cur + 1
    /\ stdin # <<>>
    /\ Head(stdin).kind = "shortpayload"

\* the frame of the first message of the batch, as it lies in the stream
FirstLength == from_bytes(SubSeq(wire.bytes, 1, 4))

\* C12: a written frame is the byte count of its payload as a 4-byte
\* big-endian number followed by the payload; what is read back is the
\* messages written, in their order, and no byte is left over.
C12_FramingRoundTrip ==
    /\ wire.pc # "error"
    /\ \A n \in DOMAIN wire.got : n <= Len(wire.msgs) /\ wire.got[n] = wire.msgs[n]
    /\ wire.pc = "closed" => wire.got = wire.msgs /\ wire.bytes = <<>>
    /\ (wire.sent >= 1 /\ wire.got = <<>>) =>
          /\ Len(wire.bytes) >= 4
          /\ \A i \in 1..4 : wire.bytes[i] \in 0..255
          /\ wire.sent = 1 => Len(wire.bytes) = 4 + FirstLength
          /\ Len(wire.bytes) >= 4 + FirstLength
          /\ wire.bytes[5] = 123
          /\ wire.bytes[4 + FirstLength] = 125

C12_Witness ==
    /\ wire.pc = "closed"
    /\ Len(wire.got) = 2
    /\ wire.got[1] = << <<K_type, V_result>>, <<K_text, <<233>> >> >>
    /\ wire.got[2] = << <<K_command, V_transcribe>>, <<K_path, <<34>> >> >>

\* C13: a call of load() after a successful one changes nothing: restore_from
\* is not called again and the engine handle is the one of the first call.
C13_LoadOnce ==
    [][ (loadResult = "ok" /\ loadCalls' # loadCalls) =>
            /\ restores = 1
            /\ restores' = restores
            /\ model' = model
            /\ model = Handle
            /\ loadResult' = "ok"
            /\ pc' = pc
            /\ out' = out
            /\ exc' = exc ]_vars

C13_Witness ==
    /\ loadCalls = 2
    /\ restores = 1
    /\ model = Handle
    /\ pc = "read"

\* C14: transcribe on a runtime whose engine handle is empty fails before
\* the audio file is opened and before generate(); generate() is only ever
\* called for a request of the loop, with the engine loaded and ready sent.
C14_StateGating ==
    /\ 0 \notin fileReads
    /\ 0 \notin inferCalls
    /\ pc \in {"import", "construct", "loading", "load_failed"} =>
          fileReads = {} /\ inferCalls = {}
    /\ \A k \in fileReads \cup inferCalls : k \in 1..Cur /\ IsTranscribe(k)
    /\ (pc = "infer" \/ inferCalls # {}) =>
          /\ model = Handle
          /\ loadResult = "ok"
          /\ out # <<>>
          /\ out[1].type = "ready"

C14_Witness ==
    /\ exc = "Model not loaded"
    /\ pc = "infer"
    /\ inferCalls = {1}

\* C15: once the worker is ready the loop ends only on a shutdown command or
\* on end of stream: every other complete frame, also one whose payload is
\* JSON but not an object or is not JSON at all, gets an error frame and the
\* loop goes on; no frame ends the process with an unhandled exception.
C15_FailureIsolation ==
    loadResult = "ok" =>
        /\ pc # "crashed"
        /\ pc = "returned" => status = 0
        /\ \A k \in 1..Cur :
              (Handled(k) /\ consumed[k].kind \in {"badjson", "nonobject"}) =>
                  /\ RepliesTo(k) # {}
                  /\ \A i \in RepliesTo(k) : out[i].type = "error"

\* the worker state of the specification
WorkerState ==
    CASE pc \in {"import", "construct"} -> "Uninitialized"
      [] pc \in {"loading", "load_failed"} -> "Loading"
      [] pc \in {"loaded", "read", "dispatch", "infer"} -> "Ready"
      [] OTHER -> "Terminated"

\* C16: outside the load itself the engine handle is non-empty exactly when
\* the worker is Ready or has terminated after having been Ready; after a
\* failed load, also one that fails between restore and freeze, the handle
\* is empty when the worker is Terminated.
C16_HandleIffReady ==
    WorkerState # "Loading" =>
        ((model # NoModel) <=>
            \/ WorkerState = "Ready"
            \/ WorkerState = "Terminated" /\ loadResult = "ok")

\* C17: from the ready frame on nothing assigns the engine handle or the
\* configuration again: restore_from has been called exactly once, and every
\* step of the loop, the shutdown included, leaves handle and device alone.
C17_HandleFrame ==
    [][ WorkerState = "Ready" =>
            /\ model = Handle
            /\ restores = 1
            /\ model' = model
            /\ restores' = restores
            /\ device' = device ]_vars

C17_Witness ==
    /\ pc = "returned"
    /\ Cur = 3
    /\ IsTranscribe(1) /\ consumed[1].env = "raise"
    /\ IsUnknownTag(2)
    /\ IsShutdown(3)
    /\ model = Handle
    /\ restores = 1

Step == <<WorkerState, WorkerState'>>

\* C18: within main the worker state moves only along Uninitialized ->
\* Loading -> Ready -> Terminated and Loading -> Terminated; nothing is read
\* or written once Terminated and load() is not called again once Ready.
C18_StateEdges ==
    [][ pc # "import" =>
            /\ \/ WorkerState' = WorkerState
               \/ Step \in { <<"Uninitialized", "Loading">>, <<"Loading", "Ready">>,
                             <<"Ready", "Terminated">>, <<"Loading", "Terminated">> }
            /\ WorkerState = "Terminated" => out' = out /\ stdin' = stdin
            /\ WorkerState = "Ready" => loadCalls' = loadCalls ]_vars

\* C19: with every call returning (every stream here ends in a shutdown
\* frame or in its closing), a worker that was ready stops only by main
\* returning 0: whenever it has stopped, it is Terminated with status 0.
C19_Termination ==
    (loadResult = "ok" /\ ~ENABLED Next) => (pc = "returned" /\ status = 0)

\* C20: an object without "command" gets exactly one error frame "Unknown
\* command None", a transcribe object without "path" gets exactly one error
\* frame with no file read and no inference; the worker stays in the loop
\* and answers the request after it.
C20_MissingField ==
    \A k \in 1..Cur :
        (IsObject(k) /\ (consumed[k].command = Absent
                         \/ (consumed[k].command = "transcribe"
                             /\ consumed[k].path = Absent))) =>
            /\ k \notin fileReads
            /\ k \notin inferCalls
            /\ Handled(k) =>
                  /\ Cardinality(RepliesTo(k)) = 1
                  /\ \A i \in RepliesTo(k) :
                        /\ out[i].type = "error"
                        /\ out[i].framed
                        /\ consumed[k].command = Absent =>
                              out[i].body = "Unknown command None"
                  /\ model = Handle
                  /\ k = Cur => pc \in {"read", "returned"} /\ status \in {NoStatus, 0}
                  /\ (k + 1 < Cur /\ IsObject(k + 1)) =>
                        Cardinality(RepliesTo(k + 1)) = 1

C20_Witness ==
    /\ Cur >= 3
    /\ IsObject(1) /\ consumed[1].command = Absent
    /\ IsObject(2) /\ consumed[2].command = "transcribe" /\ consumed[2].path = Absent
    /\ IsTranscribe(3) /\ consumed[3].env = "list"
    /\ Handled(3)
    /\ Len(out) = 4
    /\ out[2].body = "Unknown command None"
    /\ out[3].type = "error"
    /\ out[4].type = "result"
====
